---- MODULE Spec2Model ----
(***************************************************************************)
(* Radial piano: the AudioEngine of src/piano-experimental/audio.js (note  *)
(* lifecycle: pending / active / locked maps, auto-lock timers, the        *)
(* suspended playNote continuations) and the InteractionManager of         *)
(* src/unnamed/part_001 that drives it from pointer, touch and key events. *)
(*                                                                         *)
(* JavaScript runs one task at a time.  A task is one event handler, one   *)
(* timer callback or one API call; the continuations of `await init()`     *)
(* are microtasks: once the init promise has settled they all run, in the  *)
(* order in which they were suspended, before the next task starts.        *)
(***************************************************************************)
EXTENDS Integers, Sequences, FiniteSets, TLC

\* ------------------------------------------------------------------ bounds
\* Indices the engine-level specification calls the API with: 0..MaxIndex.
MaxIndex == 1
\* playNote calls that get past their guards in one behaviour (each creates
\* a continuation and at most one timer, so this also bounds timer ids).
MaxPlays == 3

\* playNote calls that get past their guards in one behaviour of the
\* application (a handler that started below the bound may make two).
MaxPresses == 2
\* Touches that are down at the same time.
MaxTouches == 2
\* Renders of the disc (the first one at start-up included).
MaxRenders == 2
\* Enter/Space presses on a focused slice in one behaviour.
MaxKeys == 1
\* Renders in one behaviour of the slice-count specification.
MaxCountRenders == 3

Indices == 0..MaxIndex

\* INITIAL_STATE
InitialSliceCount == 32

InitialRotation == 58

\* ------------------------------------------------------------ JS Map model
\* A JS Map keeps insertion order: a sequence of [k, v] entries, keys distinct.
EmptyMap == << >>

Has(m, key) == \E n \in 1..Len(m) : m[n].k = key

Get(m, key) == m[CHOOSE n \in 1..Len(m) : m[n].k = key].v

\* Map.prototype.set: an existing key keeps its position.
MapSet(m, key, val) ==
    IF Has(m, key)
    THEN [n \in 1..Len(m) |-> IF m[n].k = key THEN [k |-> key, v |-> val] ELSE m[n]]
    ELSE Append(m, [k |-> key, v |-> val])

MapDelete(m, key) == SelectSeq(m, LAMBDA e : e.k # key)

Keys(m) == {m[n].k : n \in 1..Len(m)}

\* ------------------------------------------------------------- note naming
C_MAJOR_SCALE == <<"C", "D", "E", "F", "G", "A", "B">>

\* getNote as it would be if it named every note in octave 3.
getNote_noOctave(index) ==
    LET noteInScale == index % 7
    IN C_MAJOR_SCALE[noteInScale + 1] \o ToString(3)

getNote(index) ==
    LET noteInScale == index % 7
        octave == 3 + (index \div 7)
    IN C_MAJOR_SCALE[noteInScale + 1] \o ToString(octave)

\* ---------------------------------------------------------- state variables
VARIABLES
    initPromise,   \* "none" | "waiting" | "resolved" | "rejected"
    synth,         \* TRUE once the PolySynth exists
    pendingNotes,  \* Map index -> [shouldCancel, note]
    activeNotes,   \* Map index -> note
    lockedDrones,  \* Map index -> note
    lockTimeouts,  \* Map index -> timeout id
    timers,        \* the browser's armed timers: [id, kind, index, cb, stale]
    nextTimerId,   \* the id the next setTimeout returns
    conts,         \* playNote calls suspended at `await this.init()`, oldest first
    emitted,       \* what the last step sent to the synth and to callbacks
    call,          \* the last step: [op, index, force, ghost]
    plays,         \* playNote calls that suspended so far
    epoch,         \* history: per index, overlapping starts since the last other operation
    quiet,         \* history: stopAllNotes happened and no playNote was issued since
    dragState,     \* InteractionManager.dragState
    sliceCount,    \* StateManager: sliceCount
    rotation,      \* StateManager: rotation, in degrees
    renderGen,     \* which render() created the elements now in the document
    lockedSlices,  \* RenderEngine.lockedSlices
    gripperActive, \* the slice group carries the class gripper-active
    touches,       \* how many touches are down
    keyPresses     \* Enter/Space presses so far

audioVars == <<initPromise, synth, pendingNotes, activeNotes, lockedDrones,
               lockTimeouts, timers, nextTimerId, conts, plays, epoch, quiet>>

appVars == <<dragState, sliceCount, rotation, renderGen, lockedSlices, gripperActive,
             touches, keyPresses>>

vars == <<audioVars, emitted, call, appVars>>

\* The engine together with the browser's timer table and microtask queue,
\* as one value the operations transform.
Audio ==
    [initPromise |-> initPromise, synth |-> synth, pendingNotes |-> pendingNotes,
     activeNotes |-> activeNotes, lockedDrones |-> lockedDrones,
     lockTimeouts |-> lockTimeouts, timers |-> timers, nextTimerId |-> nextTimerId,
     conts |-> conts, plays |-> plays, epoch |-> epoch, quiet |-> quiet,
     out |-> << >>]

SetAudio(S) ==
    /\ initPromise' = S.initPromise
    /\ synth' = S.synth
    /\ pendingNotes' = S.pendingNotes
    /\ activeNotes' = S.activeNotes
    /\ lockedDrones' = S.lockedDrones
    /\ lockTimeouts' = S.lockTimeouts
    /\ timers' = S.timers
    /\ nextTimerId' = S.nextTimerId
    /\ conts' = S.conts
    /\ plays' = S.plays
    /\ epoch' = S.epoch
    /\ quiet' = S.quiet
    /\ emitted' = S.out

NoEpoch == [calls |-> 0, attacks |-> 0, arms |-> 0]

\* history: an operation other than playNote acted on `index`
EndEpoch(e, index) == [i \in DOMAIN e |-> IF i = index THEN NoEpoch ELSE e[i]]

EpochOf(e, index) == IF index \in DOMAIN e THEN e[index] ELSE NoEpoch

SetEpoch(e, index, val) == [i \in DOMAIN e \cup {index} |-> IF i = index THEN val ELSE e[i]]

Ev(kind, index, note) == [ev |-> kind, index |-> index, note |-> note]

Attacks(out) == {n \in 1..Len(out) : out[n].ev = "triggerAttack"}

Releases(out) == {n \in 1..Len(out) : out[n].ev = "triggerRelease"}

Notified(out) == {n \in 1..Len(out) : out[n].ev = "onAutoLock"}

\* clearTimeout(id)
clearTimeout(ts, id) == {t \in ts : t.id # id}

\* history: the auto-lock timers of `index` have seen a stop, lock or stopAll
MarkStale(ts, index) ==
    {IF t.kind = "autolock" /\ t.index = index THEN [t EXCEPT !.stale = TRUE] ELSE t : t \in ts}

\* history: the keyboard-release timers of `index` were armed before this start
MarkOutlived(ts, index) ==
    {IF t.kind = "key" /\ t.index = index THEN [t EXCEPT !.stale = TRUE] ELSE t : t \in ts}

\* ------------------------------------------------------------ AudioEngine
\* init / _doInit: the first call creates the synth and, unless the audio
\* context is already running, waits for Tone.context.resume(); the promise
\* is cached, so later calls wait on (or find settled) the same promise.
init(S, ctxRunning) ==
    IF S.initPromise # "none"
    THEN S
    ELSE [S EXCEPT !.synth = TRUE,
                   !.initPromise = IF ctxRunning THEN "resolved" ELSE "waiting"]

\* playNote as it would be without the "already active" guard.
playNote_noActiveCheck(S, index, cb, ctxRunning) ==
    LET note == getNote(index)
        Q == [S EXCEPT !.quiet = FALSE]
    IN  IF Has(S.lockedDrones, index) THEN Q
        ELSE LET P == [Q EXCEPT
                         !.pendingNotes = MapSet(@, index, [shouldCancel |-> FALSE, note |-> note]),
                         !.plays = @ + 1,
                         !.timers = MarkOutlived(@, index),
                         !.epoch = SetEpoch(@, index,
                                     [EpochOf(@, index) EXCEPT !.calls = @ + 1])]
                 I == init(P, ctxRunning)
             IN  [I EXCEPT !.conts = Append(@, [index |-> index, cb |-> cb, stopped |-> FALSE])]

\* playNote up to its `await this.init()`: the guards, the pending mark, the
\* suspension.  cb: whether the caller passed onAutoLock.
playNote(S, index, cb, ctxRunning) ==
    LET note == getNote(index)
        Q == [S EXCEPT !.quiet = FALSE]
    IN  IF Has(S.lockedDrones, index) THEN Q
        ELSE IF Has(S.activeNotes, index) THEN Q
        ELSE LET P == [Q EXCEPT
                         !.pendingNotes = MapSet(@, index, [shouldCancel |-> FALSE, note |-> note]),
                         !.plays = @ + 1,
                         !.timers = MarkOutlived(@, index),
                         !.epoch = SetEpoch(@, index,
                                     [EpochOf(@, index) EXCEPT !.calls = @ + 1])]
                 I == init(P, ctxRunning)
             IN  [I EXCEPT !.conts = Append(@, [index |-> index, cb |-> cb, stopped |-> FALSE])]

\* playNote lines 91-106: the attack, the move from pending to active, the
\* auto-lock timer.
attackAndArm(S, c) ==
    LET index == c.index
        note == getNote(index)
        e == EpochOf(S.epoch, index)
    IN  [S EXCEPT
           !.out = Append(@, Ev("triggerAttack", index, note)),
           !.pendingNotes = MapDelete(@, index),
           !.activeNotes = MapSet(@, index, note),
           !.timers = @ \cup {[id |-> S.nextTimerId, kind |-> "autolock",
                               index |-> index, cb |-> c.cb, stale |-> FALSE]},
           !.nextTimerId = @ + 1,
           !.lockTimeouts = MapSet(@, index, S.nextTimerId),
           !.epoch = IF e.calls > 0
                     THEN SetEpoch(@, index, [e EXCEPT !.attacks = @ + 1, !.arms = @ + 1])
                     ELSE @]

\* resumePlayNote as it would be if a missing pending record did not count as
\* cancelled (`pendingState && pendingState.shouldCancel`).
resumePlayNote_missingRecordPlays(S, c) ==
    IF Has(S.pendingNotes, c.index) /\ Get(S.pendingNotes, c.index).shouldCancel
    THEN [S EXCEPT !.pendingNotes = MapDelete(@, c.index)]
    ELSE attackAndArm(S, c)

\* playNote after the await resolved: the cancellation check, then the attack.
resumePlayNote(S, c) ==
    IF ~Has(S.pendingNotes, c.index) \/ Get(S.pendingNotes, c.index).shouldCancel
    THEN [S EXCEPT !.pendingNotes = MapDelete(@, c.index)]
    ELSE attackAndArm(S, c)

\* The continuation of one suspended playNote once the init promise has
\* settled: a rejected promise makes the await throw, and nothing after it runs.
settlePlayNote(S, c) ==
    IF S.initPromise = "rejected" THEN S ELSE resumePlayNote(S, c)

\* stopNote lines 117-130: release the sounding note, clear its timer.
stopActive(S, index) ==
    LET note == Get(S.activeNotes, index)
    IN  [S EXCEPT
           !.out = IF S.synth THEN Append(@, Ev("triggerRelease", index, note)) ELSE @,
           !.activeNotes = MapDelete(@, index),
           !.timers = IF Has(S.lockTimeouts, index)
                      THEN clearTimeout(MarkStale(@, index), Get(S.lockTimeouts, index))
                      ELSE MarkStale(@, index),
           !.lockTimeouts = MapDelete(@, index),
           !.epoch = EndEpoch(@, index)]

\* stopNote lines 132-137: flag the pending record.
cancelPending(S, index) ==
    [S EXCEPT
       !.pendingNotes = MapSet(@, index,
                          [Get(S.pendingNotes, index) EXCEPT !.shouldCancel = TRUE]),
       !.conts = [n \in 1..Len(@) |->
                    IF @[n].index = index THEN [@[n] EXCEPT !.stopped = TRUE] ELSE @[n]],
       !.epoch = EndEpoch(@, index)]

\* stopNote as it would be if it forgot to clear the auto-lock timeout.
stopNote_keepsTimer(S, index, force) ==
    IF Has(S.lockedDrones, index) /\ ~force THEN S
    ELSE IF Has(S.activeNotes, index)
    THEN LET note == Get(S.activeNotes, index)
         IN  [S EXCEPT
                !.out = IF S.synth THEN Append(@, Ev("triggerRelease", index, note)) ELSE @,
                !.activeNotes = MapDelete(@, index),
                !.timers = MarkStale(@, index),
                !.epoch = EndEpoch(@, index)]
    ELSE IF Has(S.pendingNotes, index) THEN cancelPending(S, index)
    ELSE S

\* stopNote as it would be if it did not flag a pending start.
stopNote_ignoresPending(S, index, force) ==
    IF Has(S.lockedDrones, index) /\ ~force THEN S
    ELSE IF Has(S.activeNotes, index) THEN stopActive(S, index)
    ELSE [S EXCEPT !.epoch = EndEpoch(@, index)]

\* stopNote as it would be without the "locked and not forced" guard.
stopNote_ignoresLock(S, index, force) ==
    IF Has(S.activeNotes, index) THEN stopActive(S, index)
    ELSE IF Has(S.pendingNotes, index) THEN cancelPending(S, index)
    ELSE S

stopNote(S, index, force) ==
    IF Has(S.lockedDrones, index) /\ ~force THEN S
    ELSE IF Has(S.activeNotes, index) THEN stopActive(S, index)
    ELSE IF Has(S.pendingNotes, index) THEN cancelPending(S, index)
    ELSE S

\* lockDrone as it would be without the activeNotes guard.
lockDrone_unguarded(S, index) ==
    [S EXCEPT
       !.lockedDrones = MapSet(@, index, getNote(index)),
       !.timers = IF Has(S.lockTimeouts, index)
                  THEN clearTimeout(MarkStale(@, index), Get(S.lockTimeouts, index))
                  ELSE MarkStale(@, index),
       !.lockTimeouts = MapDelete(@, index),
       !.epoch = EndEpoch(@, index)]

\* lockDrone as it would be if it left the auto-lock timeout armed and recorded.
lockDrone_keepsTimer(S, index) ==
    IF Has(S.activeNotes, index)
    THEN [S EXCEPT !.lockedDrones = MapSet(@, index, Get(S.activeNotes, index)),
                   !.timers = MarkStale(@, index),
                   !.epoch = EndEpoch(@, index)]
    ELSE S

lockDrone(S, index) ==
    IF Has(S.activeNotes, index)
    THEN LET note == Get(S.activeNotes, index)
         IN  [S EXCEPT
                !.lockedDrones = MapSet(@, index, note),
                !.timers = IF Has(S.lockTimeouts, index)
                           THEN clearTimeout(MarkStale(@, index), Get(S.lockTimeouts, index))
                           ELSE MarkStale(@, index),
                !.lockTimeouts = MapDelete(@, index),
                !.epoch = EndEpoch(@, index)]
    ELSE S

\* unlockDrone as it would be if it forgot activeNotes.delete(index).
unlockDrone_keepsActive(S, index) ==
    IF Has(S.lockedDrones, index)
    THEN LET note == Get(S.lockedDrones, index)
         IN  [S EXCEPT
                !.lockedDrones = MapDelete(@, index),
                !.out = IF S.synth THEN Append(@, Ev("triggerRelease", index, note)) ELSE @,
                !.epoch = EndEpoch(@, index)]
    ELSE S

unlockDrone(S, index) ==
    IF Has(S.lockedDrones, index)
    THEN LET note == Get(S.lockedDrones, index)
         IN  [S EXCEPT
                !.lockedDrones = MapDelete(@, index),
                !.out = IF S.synth THEN Append(@, Ev("triggerRelease", index, note)) ELSE @,
                !.activeNotes = MapDelete(@, index),
                !.epoch = EndEpoch(@, index)]
    ELSE S

isLocked(S, index) == Has(S.lockedDrones, index)

\* forEach over a Map, in insertion order: one triggerRelease per entry.
ReleaseEach(m) == [n \in 1..Len(m) |-> Ev("triggerRelease", m[n].k, m[n].v)]

\* forEach over lockTimeouts: clearTimeout of every stored id.
ClearEach(ts, m) == {t \in ts : \A n \in 1..Len(m) : m[n].v # t.id}

\* stopAllNotes as it would be if it neither flagged nor cleared pendingNotes.
stopAllNotes_keepsPending(S) ==
    [S EXCEPT
       !.out = @ \o (IF S.synth /\ Len(S.activeNotes) > 0 THEN ReleaseEach(S.activeNotes) ELSE << >>)
                 \o (IF S.synth /\ Len(S.lockedDrones) > 0 THEN ReleaseEach(S.lockedDrones) ELSE << >>),
       !.activeNotes = EmptyMap,
       !.lockedDrones = EmptyMap,
       !.timers = ClearEach({IF t.kind = "autolock" THEN [t EXCEPT !.stale = TRUE] ELSE t : t \in @},
                            S.lockTimeouts),
       !.lockTimeouts = EmptyMap,
       !.epoch = [i \in DOMAIN @ |-> NoEpoch],
       !.quiet = TRUE]

stopAllNotes(S) ==
    [S EXCEPT
       !.pendingNotes = EmptyMap,
       !.out = @ \o (IF S.synth /\ Len(S.activeNotes) > 0 THEN ReleaseEach(S.activeNotes) ELSE << >>)
                 \o (IF S.synth /\ Len(S.lockedDrones) > 0 THEN ReleaseEach(S.lockedDrones) ELSE << >>),
       !.activeNotes = EmptyMap,
       !.lockedDrones = EmptyMap,
       !.timers = ClearEach({IF t.kind = "autolock" THEN [t EXCEPT !.stale = TRUE] ELSE t : t \in @},
                            S.lockTimeouts),
       !.lockTimeouts = EmptyMap,
       !.epoch = [i \in DOMAIN @ |-> NoEpoch],
       !.quiet = TRUE]

\* The callback playNote hands to setTimeout: lockDrone, then the caller's
\* onAutoLock if one was passed.
autoLockCallback(S, t) ==
    LET L == lockDrone(S, t.index)
    IN  IF t.cb THEN [L EXCEPT !.out = Append(@, Ev("onAutoLock", t.index, getNote(t.index)))]
        ELSE L

\* ------------------------------------- the AudioEngine inside part_001
\* The engine the application file defines for itself: no pendingNotes map,
\* and playNote awaits init() before it looks at anything.  Its stopNote,
\* lockDrone and timer callback read as those of audio.js.
legacyInit(S, ctxRunning) ==
    [S EXCEPT !.synth = TRUE,
              !.initPromise = IF @ = "none"
                              THEN (IF ctxRunning THEN "resolved" ELSE "waiting")
                              ELSE @]

\* playNote up to `await this.init()`
legacyPlayNote(S, index, cb, ctxRunning) ==
    LET I == legacyInit([S EXCEPT !.plays = @ + 1, !.quiet = FALSE], ctxRunning)
    IN  [I EXCEPT !.conts = Append(@, [index |-> index, cb |-> cb, stopped |-> FALSE])]

\* playNote after the await: the locked and active checks, then the attack
legacyResumePlayNote(S, c) ==
    IF Has(S.lockedDrones, c.index) THEN S
    ELSE IF ~Has(S.activeNotes, c.index) THEN attackAndArm(S, c)
    ELSE S

\* history: a stopNote was issued for the suspended starts of `index`
MarkStopped(cs, index) ==
    [n \in 1..Len(cs) |-> IF cs[n].index = index THEN [cs[n] EXCEPT !.stopped = TRUE] ELSE cs[n]]

legacyStopNote(S, index, force) ==
    LET M == [S EXCEPT !.conts = MarkStopped(@, index)]
    IN  IF Has(S.lockedDrones, index) /\ ~force THEN M
        ELSE IF Has(S.activeNotes, index) THEN stopActive(M, index)
        ELSE M

\* ------------------------------------------------------------ the document
\* A pointer position, as the handlers see it: its angle about the disc's
\* centre (getAngleFromPoint: atan2 in degrees, in (-180, 180]) and where its
\* distance from the centre falls: "inner" (inside the draggable ring),
\* "ring" (isInDraggableRing) or "outer" (over the wedges).
Pt(angle, zone) == [angle |-> angle, zone |-> zone]

Points ==
    { Pt(-170, "outer"), Pt(10, "outer"), Pt(-170, "ring"), Pt(-170, "inner") }

\* Separations of two touches (getTouchDistance), in pixels.
PinchDistances == {160, 200}

getAngleFromPoint(p) == p.angle

isInDraggableRing(p) == p.zone = "ring"

\* The % of JavaScript: the remainder takes the sign of the dividend.
JsRem(a, b) == IF a >= 0 THEN a % b ELSE -((-a) % b)

\* getSliceIndexAtPoint as it would be without the first normalisation of the
\* angle into [0, 360).
getSliceIndexAtPoint_noWrap(p, count, rot) ==
    LET a1 == getAngleFromPoint(p)
        a2 == JsRem(a1 - rot + 360, 360)
    IN  (a2 * count) \div 360

\* Math.floor(angle / (360 / count)) in exact arithmetic
getSliceIndexAtPoint(p, count, rot) ==
    LET a1 == JsRem(getAngleFromPoint(p) + 360, 360)
        a2 == JsRem(a1 - rot + 360, 360)
    IN  (a2 * count) \div 360

\* DOM elements.  render() replaces every element below the svg, so an element
\* is known by the render that created it.
NullEl == [kind |-> "null", gen |-> 0, idx |-> -1]

SliceEl(gen, idx) == [kind |-> "slice", gen |-> gen, idx |-> idx]

PlateEl(gen) == [kind |-> "plate", gen |-> gen, idx |-> -1]

\* JS Set, in insertion order
SetAdd(q, x) == IF \E n \in 1..Len(q) : q[n] = x THEN q ELSE Append(q, x)

SetDelete(q, x) == SelectSeq(q, LAMBDA y : y # x)

\* The application: engine, dragState, state manager, renderer, and the
\* inputs of the event being handled (ctx: whether the audio context is
\* already running at the first init()).
App(ctxRunning) ==
    [au |-> Audio, ds |-> dragState, sliceCount |-> sliceCount, rotation |-> rotation,
     gen |-> renderGen, lockedSlices |-> lockedSlices, gripper |-> gripperActive,
     ctx |-> ctxRunning]

SetApp(A) ==
    /\ SetAudio(A.au)
    /\ dragState' = A.ds
    /\ sliceCount' = A.sliceCount
    /\ rotation' = A.rotation
    /\ renderGen' = A.gen
    /\ lockedSlices' = A.lockedSlices
    /\ gripperActive' = A.gripper

\* The element a pointer event at p targets, and document.elementFromPoint(p):
\* the rotation plate covers the disc out to the inner radius, the wedges
\* (drawn rotated by `rotation`) lie around it.
TargetAt(A, p) ==
    IF p.zone = "outer"
    THEN SliceEl(A.gen, getSliceIndexAtPoint(p, A.sliceCount, A.rotation))
    ELSE PlateEl(A.gen)

\* --------------------------------------------------------- RenderEngine
getSliceElement(A, index) ==
    IF 0 <= index /\ index < A.sliceCount THEN SliceEl(A.gen, index) ELSE NullEl

render(A) == [A EXCEPT !.lockedSlices = {}, !.gen = @ + 1]

lockSlice(A, index) == [A EXCEPT !.lockedSlices = @ \cup {index}]

unlockSlice(A, index) == [A EXCEPT !.lockedSlices = @ \ {index}]

activateGripper(A) ==
    [A EXCEPT !.gripper = TRUE, !.au.out = Append(@, Ev("activateGripper", -1, ""))]

deactivateGripper(A) ==
    [A EXCEPT !.gripper = FALSE, !.au.out = Append(@, Ev("deactivateGripper", -1, ""))]

\* ----------------------------------------------------- InteractionManager
InitDragState ==
    [isDragging |-> FALSE, isRotating |-> FALSE, isPinching |-> FALSE,
     pressedSlices |-> << >>, lastAngle |-> 0, lastRotationSlice |-> -1,
     wasInGripperZone |-> FALSE, startedFromSlice |-> FALSE,
     lastTouchedSlice |-> NullEl, lastPinchDistance |-> 0]

activateSlice(A, index) ==
    IF isLocked(A.au, index) THEN A
    ELSE LET el == getSliceElement(A, index)
             A1 == IF el # NullEl
                   THEN [A EXCEPT !.ds.pressedSlices = SetAdd(@, el)]
                   ELSE A
         IN  [A1 EXCEPT !.au = playNote(@, index, TRUE, A.ctx)]

deactivateSlice(A, index) ==
    LET el == getSliceElement(A, index)
        A1 == IF el # NullEl
              THEN [A EXCEPT !.ds.pressedSlices = SetDelete(@, el)]
              ELSE A
    IN  [A1 EXCEPT !.au = stopNote(@, index, FALSE)]

startPinch(A, dist) ==
    [A EXCEPT !.ds.isPinching = TRUE, !.ds.lastPinchDistance = dist]

startRotation(A, p) ==
    activateGripper([A EXCEPT !.ds.isRotating = TRUE,
                              !.ds.wasInGripperZone = TRUE,
                              !.ds.startedFromSlice = FALSE,
                              !.ds.lastAngle = getAngleFromPoint(p)])

startSliceDrag(A, sliceElement) ==
    activateSlice([A EXCEPT !.ds.isDragging = TRUE, !.ds.startedFromSlice = TRUE],
                  sliceElement.idx)

\* e: [isTouch, touches (their points, oldest first), p (clientX/Y of a mouse event),
\*     target, dist (separation of the first two touches)]
ClientPoint(e) == IF e.isTouch THEN e.touches[1] ELSE e.p

\* handleStart as it would be without the `return` of line 1036: the unlocked
\* slice goes on to start an interaction.
handleStart_unlockThenStart(A, e) ==
    LET U == IF e.target.kind = "slice" /\ isLocked(A.au, e.target.idx)
             THEN unlockSlice([A EXCEPT !.au = unlockDrone(@, e.target.idx)], e.target.idx)
             ELSE A
    IN  IF /\ e.isTouch
           /\ Len(e.touches) >= 2
           /\ isInDraggableRing(e.touches[1])
           /\ isInDraggableRing(e.touches[2])
        THEN startPinch(U, e.dist)
        ELSE IF e.target.kind = "plate" /\ isInDraggableRing(ClientPoint(e))
        THEN startRotation(U, ClientPoint(e))
        ELSE IF e.target.kind = "slice" THEN startSliceDrag(U, e.target)
        ELSE U

handleStart(A, e) ==
    IF e.target.kind = "slice" /\ isLocked(A.au, e.target.idx)
    THEN unlockSlice([A EXCEPT !.au = unlockDrone(@, e.target.idx)], e.target.idx)
    ELSE IF /\ e.isTouch
            /\ Len(e.touches) >= 2
            /\ isInDraggableRing(e.touches[1])
            /\ isInDraggableRing(e.touches[2])
    THEN startPinch(A, e.dist)
    ELSE LET p == ClientPoint(e)
             isInnerCircle == e.target.kind = "plate"
             inDraggableRing == isInDraggableRing(p)
         IN  IF isInnerCircle /\ inDraggableRing THEN startRotation(A, p)
             ELSE IF e.target.kind = "slice" THEN startSliceDrag(A, e.target)
             ELSE A

\* Math.round(n / d) for d > 0: the nearest integer, halves towards +infinity
MathRound(n, d) == (2 * n + d) \div (2 * d)

Max(a, b) == IF a > b THEN a ELSE b

Min(a, b) == IF a < b THEN a ELSE b

\* handlePinch as it would be without the clamp to 6..72.
handlePinch_unclamped(A, dist) ==
    LET sliceChange == MathRound(dist - A.ds.lastPinchDistance, 20)
    IN  IF sliceChange # 0
        THEN [render([A EXCEPT !.sliceCount = @ - sliceChange])
                 EXCEPT !.ds.lastPinchDistance = dist]
        ELSE A

\* handlePinch as it would be if it took every reading as the new baseline.
handlePinch_alwaysRebase(A, dist) ==
    LET sliceChange == MathRound(dist - A.ds.lastPinchDistance, 20)
        newSliceCount == Max(6, Min(72, A.sliceCount - sliceChange))
        A1 == [A EXCEPT !.ds.lastPinchDistance = dist]
    IN  IF sliceChange # 0 /\ newSliceCount # A.sliceCount
        THEN render([A1 EXCEPT !.sliceCount = newSliceCount])
        ELSE A1

handlePinch(A, dist) ==
    LET currentDistance == dist
        distanceDelta == currentDistance - A.ds.lastPinchDistance
        sliceChange == MathRound(distanceDelta, 20)
        currentSliceCount == A.sliceCount
        newSliceCount == Max(6, Min(72, currentSliceCount - sliceChange))
    IN  IF sliceChange # 0 /\ newSliceCount # currentSliceCount
        THEN [render([A EXCEPT !.sliceCount = newSliceCount])
                 EXCEPT !.ds.lastPinchDistance = currentDistance]
        ELSE A

activateSliceAtPosition(A, p) ==
    LET sliceIndex == getSliceIndexAtPoint(p, A.sliceCount, A.rotation)
        A1 == IF A.ds.lastRotationSlice # -1 /\ A.ds.lastRotationSlice # sliceIndex
              THEN deactivateSlice(A, A.ds.lastRotationSlice)
              ELSE A
    IN  IF sliceIndex # A.ds.lastRotationSlice
        THEN [activateSlice(A1, sliceIndex) EXCEPT !.ds.lastRotationSlice = sliceIndex]
        ELSE A1

\* handleRotation as it would be without the reduction modulo 360.
handleRotation_noModulo(A, p) ==
    LET currentAngle == getAngleFromPoint(p)
        d0 == currentAngle - A.ds.lastAngle
        d1 == IF d0 > 180 THEN d0 - 360 ELSE d0
        angleDiff == IF d1 < -180 THEN d1 + 360 ELSE d1
        A1 == [A EXCEPT !.rotation = @ + angleDiff, !.ds.lastAngle = currentAngle]
    IN  IF A1.ds.startedFromSlice THEN activateSliceAtPosition(A1, p) ELSE A1

handleRotation(A, p) ==
    LET currentAngle == getAngleFromPoint(p)
        d0 == currentAngle - A.ds.lastAngle
        d1 == IF d0 > 180 THEN d0 - 360 ELSE d0
        angleDiff == IF d1 < -180 THEN d1 + 360 ELSE d1
        newRotation == JsRem(A.rotation + angleDiff + 360, 360)
        A1 == [A EXCEPT !.rotation = newRotation, !.ds.lastAngle = currentAngle]
    IN  IF A1.ds.startedFromSlice THEN activateSliceAtPosition(A1, p) ELSE A1

handleSliceDrag(A, p) ==
    LET element == TargetAt(A, p)
        last == A.ds.lastTouchedSlice
        A1 == IF last # NullEl /\ last # element
              THEN [deactivateSlice(A, last.idx) EXCEPT !.ds.lastTouchedSlice = NullEl]
              ELSE A
    IN  IF element.kind = "slice"
        THEN IF isLocked(A1.au, element.idx) THEN A1
             ELSE IF element # A1.ds.lastTouchedSlice
             THEN [activateSlice(A1, element.idx) EXCEPT !.ds.lastTouchedSlice = element]
             ELSE A1
        ELSE A1

\* handleMove lines 1110-1143: a pinch that is down to one touch
pinchToSingleTouch(A, e) ==
    LET p == e.touches[1]
        A0 == [A EXCEPT !.ds.isPinching = FALSE, !.ds.lastPinchDistance = 0]
        element == TargetAt(A, p)
    IN  IF isInDraggableRing(p)
        THEN activateGripper([A0 EXCEPT !.ds.isRotating = TRUE,
                                        !.ds.wasInGripperZone = TRUE,
                                        !.ds.lastAngle = getAngleFromPoint(p)])
        ELSE IF element.kind = "slice"
        THEN activateSlice([A0 EXCEPT !.ds.isDragging = TRUE, !.ds.startedFromSlice = TRUE],
                           element.idx)
        ELSE [A0 EXCEPT !.ds.isDragging = TRUE]

\* handleMove lines 1145-1177
moveSinglePointer(A, e) ==
    IF ~A.ds.isDragging /\ ~A.ds.isRotating THEN A
    ELSE LET p == ClientPoint(e)
             inGripperZone == isInDraggableRing(p)
             A1 == IF inGripperZone /\ ~A.ds.wasInGripperZone
                   THEN LET last == A.ds.lastTouchedSlice
                            R == IF last # NullEl
                                 THEN [deactivateSlice(A, last.idx)
                                          EXCEPT !.ds.lastTouchedSlice = NullEl]
                                 ELSE A
                        IN  activateGripper([R EXCEPT !.ds.isRotating = TRUE,
                                                      !.ds.wasInGripperZone = TRUE,
                                                      !.ds.lastAngle = getAngleFromPoint(p)])
                   ELSE A
         IN  IF A1.ds.isRotating THEN handleRotation(A1, p)
             ELSE IF A1.ds.isDragging THEN handleSliceDrag(A1, p)
             ELSE A1

handleMove(A, e) ==
    IF A.ds.isPinching /\ e.isTouch /\ Len(e.touches) >= 2
    THEN handlePinch(A, e.dist)
    ELSE IF A.ds.isPinching /\ e.isTouch /\ Len(e.touches) < 2
    THEN moveSinglePointer(pinchToSingleTouch(A, e), e)
    ELSE moveSinglePointer(A, e)

\* pressedSlices.forEach of handleEnd
RECURSIVE ReleasePressed(_, _)
ReleasePressed(au, pressed) ==
    IF pressed = << >> THEN au
    ELSE LET index == Head(pressed).idx
         IN  ReleasePressed(IF ~isLocked(au, index) THEN stopNote(au, index, FALSE) ELSE au,
                            Tail(pressed))

\* handleEnd as it would be if it reset the session without releasing the
\* pressed slices.
handleEnd_keepsNotes(A) ==
    IF A.ds.isDragging \/ A.ds.isRotating \/ A.ds.isPinching
    THEN LET A2 == IF A.ds.isRotating THEN deactivateGripper(A) ELSE A
         IN  [A2 EXCEPT !.ds = [InitDragState EXCEPT !.lastAngle = A.ds.lastAngle]]
    ELSE A

\* handleEnd as it would be if it reset the three flags only and kept the
\* pressed set and the rotation bookkeeping.
handleEnd_keepsPressed(A) ==
    IF A.ds.isDragging \/ A.ds.isRotating \/ A.ds.isPinching
    THEN LET au1 == ReleasePressed(A.au, A.ds.pressedSlices)
             lrs == A.ds.lastRotationSlice
             au2 == IF lrs # -1 /\ ~isLocked(au1, lrs) THEN stopNote(au1, lrs, FALSE) ELSE au1
             A1 == [A EXCEPT !.au = au2]
             A2 == IF A.ds.isRotating THEN deactivateGripper(A1) ELSE A1
         IN  [A2 EXCEPT !.ds.isDragging = FALSE, !.ds.isRotating = FALSE,
                        !.ds.isPinching = FALSE]
    ELSE A

handleEnd(A) ==
    IF A.ds.isDragging \/ A.ds.isRotating \/ A.ds.isPinching
    THEN LET au1 == ReleasePressed(A.au, A.ds.pressedSlices)
             lrs == A.ds.lastRotationSlice
             au2 == IF lrs # -1 /\ ~isLocked(au1, lrs) THEN stopNote(au1, lrs, FALSE) ELSE au1
             A1 == [A EXCEPT !.au = au2]
             A2 == IF A.ds.isRotating THEN deactivateGripper(A1) ELSE A1
         IN  [A2 EXCEPT !.ds = [InitDragState EXCEPT !.lastAngle = A.ds.lastAngle]]
    ELSE A

\* handleKeyboard: the slice is pressed now; its release is left to a timer.
handleKeyboard(A, index) ==
    LET A1 == activateSlice(A, index)
    IN  [A1 EXCEPT !.au.timers = @ \cup {[id |-> A1.au.nextTimerId, kind |-> "key",
                                          index |-> index, cb |-> FALSE, stale |-> FALSE]},
                   !.au.nextTimerId = @ + 1]

\* ControlsManager.changeSliceCount and updateSliceCount.  The input element's
\* value mirrors sliceCount (the subscription of line 1502 rewrites it on every
\* change), so parseInt of it is the current count.
changeSliceCount(A, delta) ==
    LET current == A.sliceCount
        newValue == Max(6, Min(72, current + delta))
        value == Max(6, Min(72, newValue))
    IN  render([A EXCEPT !.sliceCount = value])

\* ------------------------------------------------------------ scheduling
\* Microtasks are due: no task (event, timer, API call) starts before they ran.
MicrotasksDue == initPromise \in {"resolved", "rejected"} /\ conts # << >>

TaskReady == ~MicrotasksDue

Op(name, index, force, ghost) == [op |-> name, index |-> index, force |-> force, ghost |-> ghost]

\* ---------------------------------------------- the engine called directly
InitAudio ==
    /\ initPromise = "none"
    /\ synth = FALSE
    /\ pendingNotes = EmptyMap
    /\ activeNotes = EmptyMap
    /\ lockedDrones = EmptyMap
    /\ lockTimeouts = EmptyMap
    /\ timers = {}
    /\ nextTimerId = 1
    /\ conts = << >>
    /\ emitted = << >>
    /\ call = Op("new", -1, FALSE, FALSE)
    /\ plays = 0
    /\ epoch = [i \in {} |-> NoEpoch]
    /\ quiet = FALSE

\* INITIAL_STATE and the first render() of Application.init.
InitApp ==
    /\ dragState = InitDragState
    /\ sliceCount = InitialSliceCount
    /\ rotation = InitialRotation
    /\ renderGen = 1
    /\ lockedSlices = {}
    /\ gripperActive = FALSE
    /\ touches = 0
    /\ keyPresses = 0

InitEngine == InitAudio /\ InitApp

PlayNoteCall ==
    /\ TaskReady
    /\ plays < MaxPlays
    /\ \E index \in Indices, cb \in BOOLEAN, ctxRunning \in BOOLEAN :
         /\ SetAudio(playNote(Audio, index, cb, ctxRunning))
         /\ call' = Op("playNote", index, FALSE, FALSE)
    /\ UNCHANGED appVars

StopNoteCall ==
    /\ TaskReady
    /\ \E index \in Indices, force \in BOOLEAN :
         /\ SetAudio(stopNote(Audio, index, force))
         /\ call' = Op("stopNote", index, force, FALSE)
    /\ UNCHANGED appVars

LockDroneCall ==
    /\ TaskReady
    /\ \E index \in Indices :
         /\ SetAudio(lockDrone(Audio, index))
         /\ call' = Op("lockDrone", index, FALSE, FALSE)
    /\ UNCHANGED appVars

UnlockDroneCall ==
    /\ TaskReady
    /\ \E index \in Indices :
         /\ SetAudio(unlockDrone(Audio, index))
         /\ call' = Op("unlockDrone", index, FALSE, FALSE)
    /\ UNCHANGED appVars

StopAllNotesCall ==
    /\ TaskReady
    /\ SetAudio(stopAllNotes(Audio))
    /\ call' = Op("stopAllNotes", -1, FALSE, FALSE)
    /\ UNCHANGED appVars

\* Tone.context.resume() fulfils: the waiting continuations become due.
InitResolve ==
    /\ initPromise = "waiting"
    /\ SetAudio([Audio EXCEPT !.initPromise = "resolved"])
    /\ call' = Op("initResolved", -1, FALSE, FALSE)
    /\ UNCHANGED appVars

\* Tone.context.resume() rejects (audio unavailable or denied).
InitReject ==
    /\ initPromise = "waiting"
    /\ SetAudio([Audio EXCEPT !.initPromise = "rejected"])
    /\ call' = Op("initRejected", -1, FALSE, FALSE)
    /\ UNCHANGED appVars

\* The oldest suspended playNote continues.
RunCont ==
    /\ MicrotasksDue
    /\ LET c == Head(conts)
       IN  /\ SetAudio(settlePlayNote([Audio EXCEPT !.conts = Tail(@)], c))
           /\ call' = Op("resume", c.index, FALSE, c.stopped)
    /\ UNCHANGED appVars

\* An armed auto-lock timer fires.
AutoLockFire ==
    /\ TaskReady
    /\ \E t \in timers :
         /\ t.kind = "autolock"
         /\ SetAudio(autoLockCallback([Audio EXCEPT !.timers = @ \ {t}], t))
         /\ call' = Op("timer", t.index, FALSE, t.stale)
    /\ UNCHANGED appVars

NextEngine ==
    \/ PlayNoteCall
    \/ StopNoteCall
    \/ LockDroneCall
    \/ UnlockDroneCall
    \/ StopAllNotesCall
    \/ InitResolve
    \/ InitReject
    \/ RunCont
    \/ AutoLockFire

SpecEngine == InitEngine /\ [][NextEngine]_vars

\* ------------------------------------------------------- the application
\* Whether the audio context is already running matters to the first init() only.
CtxChoices == IF initPromise = "none" THEN BOOLEAN ELSE {TRUE}

MouseEvent(A, p) ==
    [isTouch |-> FALSE, touches |-> << >>, p |-> p, target |-> TargetAt(A, p), dist |-> 0]

\* e.touches holds the positions of all touches that are down, oldest first.
\* Only their number is kept between events: where each touch is when an
\* event is dispatched is an input of that event.
TouchEvent(A, ts, target, dist) ==
    [isTouch |-> TRUE, touches |-> ts, p |-> ts[1], target |-> target, dist |-> dist]

TouchLists(n) == [1..n -> Points]

DistChoices(ts) == IF Len(ts) >= 2 THEN PinchDistances ELSE {0}

MouseDown ==
    /\ TaskReady
    /\ plays < MaxPresses
    /\ \E p \in Points, ctx \in CtxChoices :
         SetApp(handleStart(App(ctx), MouseEvent(App(ctx), p)))
    /\ call' = Op("handleStart", -1, FALSE, FALSE)
    /\ UNCHANGED <<touches, keyPresses>>

MouseMove ==
    /\ TaskReady
    /\ plays < MaxPresses
    /\ \E p \in Points, ctx \in CtxChoices :
         SetApp(handleMove(App(ctx), MouseEvent(App(ctx), p)))
    /\ call' = Op("handleMove", -1, FALSE, FALSE)
    /\ UNCHANGED <<touches, keyPresses>>

MouseUp ==
    /\ TaskReady
    /\ SetApp(handleEnd(App(TRUE)))
    /\ call' = Op("handleEnd", -1, FALSE, FALSE)
    /\ UNCHANGED <<touches, keyPresses>>

\* touchstart on the svg: the target is the element under the new touch.
TouchStart ==
    /\ TaskReady
    /\ plays < MaxPresses
    /\ touches < MaxTouches
    /\ touches' = touches + 1
    /\ \E ts \in TouchLists(touches + 1), ctx \in CtxChoices :
         \E dist \in DistChoices(ts) :
           SetApp(handleStart(App(ctx), TouchEvent(App(ctx), ts, TargetAt(App(ctx), ts[Len(ts)]), dist)))
    /\ call' = Op("handleStart", -1, FALSE, FALSE)
    /\ UNCHANGED keyPresses

TouchMove ==
    /\ TaskReady
    /\ plays < MaxPresses
    /\ dragState.isPinching => renderGen < MaxRenders
    /\ touches > 0
    /\ \E ts \in TouchLists(touches), ctx \in CtxChoices :
         \E dist \in DistChoices(ts) :
           SetApp(handleMove(App(ctx), TouchEvent(App(ctx), ts, NullEl, dist)))
    /\ call' = Op("handleMove", -1, FALSE, FALSE)
    /\ UNCHANGED <<touches, keyPresses>>

\* touchend and touchcancel
TouchEnd ==
    /\ TaskReady
    /\ touches > 0
    /\ touches' = touches - 1
    /\ SetApp(handleEnd(App(TRUE)))
    /\ call' = Op("handleEnd", -1, FALSE, FALSE)
    /\ UNCHANGED keyPresses

\* The slices a key press can reach here: the ones under the outer points.
KeySlices == {getSliceIndexAtPoint(p, sliceCount, rotation) : p \in {q \in Points : q.zone = "outer"}}

\* keydown of Enter or Space on a focused slice
KeyDown ==
    /\ TaskReady
    /\ plays < MaxPresses
    /\ keyPresses < MaxKeys
    /\ keyPresses' = keyPresses + 1
    /\ \E index \in KeySlices, ctx \in CtxChoices :
         /\ SetApp(handleKeyboard(App(ctx), index))
         /\ call' = Op("handleKeyboard", index, FALSE, FALSE)
    /\ UNCHANGED touches

\* The 350 ms timer of handleKeyboard fires.
KeyTimerFire ==
    /\ TaskReady
    /\ \E t \in timers :
         /\ t.kind = "key"
         /\ SetApp(deactivateSlice([App(TRUE) EXCEPT !.au.timers = @ \ {t}], t.index))
         /\ call' = Op("keyTimer", t.index, FALSE, t.stale)
    /\ UNCHANGED <<touches, keyPresses>>

\* An auto-lock timer armed for activateSlice fires: lockDrone, then the
\* callback of line 1268, renderer.lockSlice.
AutoLockTimerFire ==
    /\ TaskReady
    /\ \E t \in timers :
         /\ t.kind = "autolock"
         /\ LET A == [App(TRUE) EXCEPT !.au = autoLockCallback([@ EXCEPT !.timers = @ \ {t}], t)]
            IN  SetApp(IF t.cb THEN lockSlice(A, t.index) ELSE A)
         /\ call' = Op("timer", t.index, FALSE, t.stale)
    /\ UNCHANGED <<touches, keyPresses>>

\* window blur, the page becoming hidden, Escape: Application.init 1796-1817
Panic ==
    /\ TaskReady
    /\ SetApp([App(TRUE) EXCEPT !.au = stopAllNotes(@)])
    /\ call' = Op("stopAllNotes", -1, FALSE, FALSE)
    /\ UNCHANGED <<touches, keyPresses>>

Next ==
    \/ MouseDown
    \/ MouseMove
    \/ MouseUp
    \/ TouchStart
    \/ TouchMove
    \/ TouchEnd
    \/ KeyDown
    \/ KeyTimerFire
    \/ AutoLockTimerFire
    \/ Panic
    \/ InitResolve
    \/ InitReject
    \/ RunCont

Spec == InitEngine /\ [][Next]_vars

\* ----------------------------------------------------- the slice count
\* The slice count under pinches in the ring and the +/- buttons, from any
\* count the controls can have produced.
SliceCounts == 6..72

\* Separations of the two touches of a pinch, in pixels.
Separations == {100, 150, 160, 190, 200, 210, 230, 1500}

RingPoint == CHOOSE p \in Points : p.zone = "ring"

InitCount ==
    /\ InitAudio
    /\ dragState = InitDragState
    /\ sliceCount \in SliceCounts
    /\ rotation = InitialRotation
    /\ renderGen = 1
    /\ lockedSlices = {}
    /\ gripperActive = FALSE
    /\ touches = 0
    /\ keyPresses = 0

\* touchstart in the ring: the first touch starts a rotation, the second a pinch.
RingTouchStart ==
    /\ touches < MaxTouches
    /\ touches' = touches + 1
    /\ LET ts == [n \in 1..(touches + 1) |-> RingPoint]
       IN  \E dist \in IF Len(ts) >= 2 THEN Separations ELSE {0} :
             /\ SetApp(handleStart(App(TRUE), TouchEvent(App(TRUE), ts, PlateEl(renderGen), dist)))
             /\ call' = Op("handleStart", dist, FALSE, FALSE)
    /\ UNCHANGED keyPresses

\* touchmove with both touches down and in the ring
PinchMove ==
    /\ touches = 2
    /\ renderGen < MaxCountRenders
    /\ \E dist \in Separations :
         /\ SetApp(handleMove(App(TRUE), TouchEvent(App(TRUE), <<RingPoint, RingPoint>>, NullEl, dist)))
         /\ call' = Op(IF dragState.isPinching THEN "handlePinch" ELSE "handleMove",
                        dist, FALSE, FALSE)
    /\ UNCHANGED <<touches, keyPresses>>

RingTouchEnd ==
    /\ touches > 0
    /\ touches' = touches - 1
    /\ SetApp(handleEnd(App(TRUE)))
    /\ call' = Op("handleEnd", -1, FALSE, FALSE)
    /\ UNCHANGED keyPresses

\* The +/- buttons of the slice count control.
ChangeSliceCount ==
    /\ renderGen < MaxCountRenders
    /\ \E delta \in {-1, 1} :
         /\ SetApp(changeSliceCount(App(TRUE), delta))
         /\ call' = Op("changeSliceCount", delta, FALSE, FALSE)
    /\ UNCHANGED <<touches, keyPresses>>

NextCount ==
    \/ RingTouchStart
    \/ PinchMove
    \/ RingTouchEnd
    \/ ChangeSliceCount

SpecCount == InitCount /\ [][NextCount]_vars

\* ------------------------------------------- geometry and note naming
\* GeometryEngine.getSliceIndexAtPoint and AudioEngine.getNote applied to the
\* inputs the application can hand them: any slice count and rotation the
\* state can hold, pointer angles as atan2 gives them, indices of up to 72
\* slices.
Angles == {a \in -180..180 : a % 10 = 0}

Rotations == {r \in 0..359 : r % 30 = 0} \cup {InitialRotation, 359}

NoteIndices == 0..71

InitGeometry ==
    /\ InitAudio
    /\ dragState = InitDragState
    /\ sliceCount \in SliceCounts
    /\ rotation \in Rotations
    /\ renderGen = 1
    /\ lockedSlices = {}
    /\ gripperActive = FALSE
    /\ touches = 0
    /\ keyPresses = 0

GetSliceIndexAtPoint ==
    /\ \E a \in Angles :
         /\ call' = Op("getSliceIndexAtPoint", a, FALSE, FALSE)
         /\ emitted' = << Ev("sliceIndex",
                             getSliceIndexAtPoint(Pt(a, "outer"), sliceCount, rotation), "") >>
    /\ UNCHANGED <<initPromise, synth, pendingNotes, activeNotes, lockedDrones,
                   lockTimeouts, timers, nextTimerId, conts, plays, epoch, quiet>>
    /\ UNCHANGED appVars

GetNote ==
    /\ \E index \in NoteIndices :
         /\ call' = Op("getNote", index, FALSE, FALSE)
         /\ emitted' = << Ev("note", index, getNote(index)) >>
    /\ UNCHANGED <<initPromise, synth, pendingNotes, activeNotes, lockedDrones,
                   lockTimeouts, timers, nextTimerId, conts, plays, epoch, quiet>>
    /\ UNCHANGED appVars

NextGeometry ==
    \/ GetSliceIndexAtPoint
    \/ GetNote

SpecGeometry == InitGeometry /\ [][NextGeometry]_vars

\* ---------------------------------- the engine of part_001 called directly
LegacyPlayNoteCall ==
    /\ TaskReady
    /\ plays < MaxPlays
    /\ \E index \in Indices, cb \in BOOLEAN, ctxRunning \in CtxChoices :
         /\ SetAudio(legacyPlayNote(Audio, index, cb, ctxRunning))
         /\ call' = Op("playNote", index, FALSE, FALSE)
    /\ UNCHANGED appVars

LegacyStopNoteCall ==
    /\ TaskReady
    /\ \E index \in Indices, force \in BOOLEAN :
         /\ SetAudio(legacyStopNote(Audio, index, force))
         /\ call' = Op("stopNote", index, force, FALSE)
    /\ UNCHANGED appVars

\* The oldest suspended playNote continues.
LegacyRunCont ==
    /\ MicrotasksDue
    /\ LET c == Head(conts)
       IN  /\ SetAudio(legacyResumePlayNote([Audio EXCEPT !.conts = Tail(@)], c))
           /\ call' = Op("resume", c.index, FALSE, c.stopped)
    /\ UNCHANGED appVars

NextLegacy ==
    \/ LegacyPlayNoteCall
    \/ LegacyStopNoteCall
    \/ InitResolve
    \/ LegacyRunCont
    \/ AutoLockFire

SpecLegacy == InitEngine /\ [][NextLegacy]_vars

\* ------------------------------- calls made before the audio is ready
\* playNote and non-forced stopNote issued while Tone.context.resume() has
\* not yet resolved; then the resolution, the continuations, the timers.
PlayBeforeReady ==
    /\ initPromise \in {"none", "waiting"}
    /\ plays < MaxPlays
    /\ \E index \in Indices, cb \in BOOLEAN :
         /\ SetAudio(playNote(Audio, index, cb, FALSE))
         /\ call' = Op("playNote", index, FALSE, FALSE)
    /\ UNCHANGED appVars

StopBeforeReady ==
    /\ initPromise \in {"none", "waiting"}
    /\ \E index \in Indices :
         /\ SetAudio(stopNote(Audio, index, FALSE))
         /\ call' = Op("stopNote", index, FALSE, FALSE)
    /\ UNCHANGED appVars

NextUnready ==
    \/ PlayBeforeReady
    \/ StopBeforeReady
    \/ InitResolve
    \/ RunCont
    \/ AutoLockFire

SpecUnready == InitEngine /\ [][NextUnready]_vars

\* --------------------------------- notes held while the count shrinks
\* A mouse that presses the last wedge of the disc (or another one), the
\* auto-lock, and the - / + buttons of the slice count.
EdgePoints == {Pt(50, "outer"), Pt(-170, "outer")}

EdgeMouseDown ==
    /\ TaskReady
    /\ plays < MaxPresses
    /\ \E p \in EdgePoints, ctx \in CtxChoices :
         SetApp(handleStart(App(ctx), MouseEvent(App(ctx), p)))
    /\ call' = Op("handleStart", -1, FALSE, FALSE)
    /\ UNCHANGED <<touches, keyPresses>>

CountButton ==
    /\ TaskReady
    /\ renderGen < MaxCountRenders
    /\ \E delta \in {-1, 1} :
         /\ SetApp(changeSliceCount(App(TRUE), delta))
         /\ call' = Op("changeSliceCount", delta, FALSE, FALSE)
    /\ UNCHANGED <<touches, keyPresses>>

NextShrink ==
    \/ EdgeMouseDown
    \/ MouseUp
    \/ CountButton
    \/ InitResolve
    \/ RunCont
    \/ AutoLockTimerFire

SpecShrink == InitEngine /\ [][NextShrink]_vars

\* ------------------------------------------------------- the rotation
\* The disc turned by a mouse that goes down in the draggable ring, from any
\* whole rotation in [0, 360).
RotateAngles == {-179, -170, -90, -1, 0, 1, 90, 179, 180}

InitRotate ==
    /\ InitAudio
    /\ dragState = InitDragState
    /\ sliceCount = InitialSliceCount
    /\ rotation \in 0..359
    /\ renderGen = 1
    /\ lockedSlices = {}
    /\ gripperActive = FALSE
    /\ touches = 0
    /\ keyPresses = 0

RingMouseDown ==
    /\ ~dragState.isRotating
    /\ \E a \in RotateAngles :
         /\ SetApp(handleStart(App(TRUE), MouseEvent(App(TRUE), Pt(a, "ring"))))
         /\ call' = Op("handleStart", a, FALSE, FALSE)
    /\ UNCHANGED <<touches, keyPresses>>

\* mousemove while rotating: the pointer may be anywhere
RotateMove ==
    /\ dragState.isRotating
    /\ \E a \in RotateAngles, zone \in {"ring", "outer"} :
         /\ SetApp(handleMove(App(TRUE), MouseEvent(App(TRUE), Pt(a, zone))))
         /\ call' = Op("handleRotation", a, FALSE, FALSE)
    /\ UNCHANGED <<touches, keyPresses>>

RotateEnd ==
    /\ dragState.isRotating
    /\ SetApp(handleEnd(App(TRUE)))
    /\ call' = Op("handleEnd", -1, FALSE, FALSE)
    /\ UNCHANGED <<touches, keyPresses>>

NextRotate ==
    \/ RingMouseDown
    \/ RotateMove
    \/ RotateEnd

SpecRotate == InitRotate /\ [][NextRotate]_vars

\* ------------------------------------------------------- lifecycle tags
IsPending(i) == Has(pendingNotes, i)

\* Active: sounding and not locked
IsActive(i) == Has(activeNotes, i) /\ ~Has(lockedDrones, i)

IsLockedNow(i) == Has(lockedDrones, i)

IsIdle(i) ==
    /\ ~Has(pendingNotes, i)
    /\ ~Has(activeNotes, i)
    /\ ~Has(lockedDrones, i)
    /\ ~Has(lockTimeouts, i)

InFlight(i) == \E n \in 1..Len(conts) : conts[n].index = i

AutoLockTimers(i) == {t \in timers : t.kind = "autolock" /\ t.index = i}

engineMaps == <<pendingNotes, activeNotes, lockedDrones, lockTimeouts>>

\* The gesture session is idle, no playNote is suspended, no keyboard-release
\* timer is outstanding.
Quiescent ==
    /\ ~dragState.isDragging
    /\ ~dragState.isRotating
    /\ ~dragState.isPinching
    /\ conts = << >>
    /\ \A t \in timers : t.kind # "key"

\* ------------------------------------------------------------------ properties

\* C1: no stuck note.  In every quiescent state of the application (session
\* idle, no continuation in flight, no keyboard-release timer outstanding)
\* every index in activeNotes is also in lockedDrones.
C1_NoStuckNote ==
    Quiescent => \A i \in Keys(activeNotes) : Has(lockedDrones, i)

\* handleEnd has just released a sounding note and left the application
\* quiescent while another note stays locked.
C1_Witness ==
    /\ Quiescent
    /\ call.op = "handleEnd"
    /\ Releases(emitted) # {}
    /\ lockedDrones # EmptyMap
    /\ nextTimerId > 2

\* C2: when playNote(index) is called two or more times while the readiness
\* wait is unresolved and no stop intervenes, then once every continuation of
\* the index has resolved the index went to Active exactly once: one
\* triggerAttack, the index Active, exactly one auto-lock timer armed.
C2_OverlappingStartsAttackOnce ==
    \A i \in DOMAIN epoch :
        (epoch[i].calls >= 2 /\ initPromise = "resolved" /\ ~InFlight(i))
            => /\ epoch[i].attacks = 1
               /\ epoch[i].arms = 1
               /\ IsActive(i)
               /\ Cardinality(AutoLockTimers(i)) = 1
               /\ Has(lockTimeouts, i)

C2_Witness ==
    \E i \in DOMAIN epoch :
        /\ epoch[i].calls >= 2
        /\ initPromise = "resolved"
        /\ ~InFlight(i)
        /\ epoch[i].attacks = 1
        /\ call.op = "resume"

\* C3: a playNote call that was in flight when stopNote(index) found the
\* index Pending never emits triggerAttack (never makes the index Active)
\* when its readiness wait resolves.
C3_StoppedStartNeverAttacks ==
    (call.op = "resume" /\ call.ghost) => Attacks(emitted) = {}

\* C4: stopAllNotes leaves the four maps empty, and as long as no playNote is
\* issued after it no triggerAttack is emitted and no index becomes Locked,
\* whatever continuations and timers were outstanding.
C4_StopAllClearsAndSilences ==
    /\ [][call'.op = "stopAllNotes" =>
            /\ pendingNotes' = EmptyMap
            /\ activeNotes' = EmptyMap
            /\ lockedDrones' = EmptyMap
            /\ lockTimeouts' = EmptyMap]_vars
    /\ [][(quiet /\ quiet') =>
            /\ Attacks(emitted') = {}
            /\ Keys(lockedDrones') \subseteq Keys(lockedDrones)
            /\ Keys(activeNotes') \subseteq Keys(activeNotes)]_vars

\* A continuation that was suspended when stopAllNotes ran has resumed.
C4_Witness ==
    /\ quiet
    /\ call.op = "resume"
    /\ initPromise = "resolved"
    /\ Attacks(emitted) = {}
    /\ activeNotes = EmptyMap

\* C5: an auto-lock timer locks its index and invokes the lock notification
\* only when the index is still Active and no stop, lock or stopAll touched it
\* since the timer was armed; a timer whose index has left Active changes no
\* engine state and invokes no notification.
C5_AutoLockOnlyWhileActive ==
    [][call'.op = "timer" =>
          IF IsActive(call'.index) /\ ~call'.ghost
          THEN /\ Has(lockedDrones', call'.index)
               /\ ~Has(lockTimeouts', call'.index)
          ELSE /\ UNCHANGED engineMaps
               /\ Notified(emitted') = {}]_vars

C5_Witness ==
    /\ call.op = "timer"
    /\ Has(lockedDrones, call.index)
    /\ Notified(emitted) # {}

\* C6: lockDrone(index) locks the index only if it is in activeNotes at the
\* call; on an Idle, Pending or already stopped index it changes no map,
\* cancels no timer and emits nothing.
C6_LockOnlyFromActive ==
    [][call'.op = "lockDrone" =>
          IF Has(activeNotes, call'.index)
          THEN Has(lockedDrones', call'.index)
          ELSE /\ UNCHANGED <<engineMaps, timers, conts>>
               /\ emitted' = << >>]_vars

C6_Witness ==
    /\ call.op = "lockDrone"
    /\ IsPending(call.index)
    /\ ~IsLockedNow(call.index)

\* C7: unlockDrone(index) on a Locked index emits one triggerRelease for its
\* note and leaves the index in none of the four maps; on an index that is not
\* Locked it changes nothing and emits nothing.
C7_UnlockReleasesToIdle ==
    [][call'.op = "unlockDrone" =>
          IF Has(lockedDrones, call'.index)
          THEN /\ emitted' = <<Ev("triggerRelease", call'.index, getNote(call'.index))>>
               /\ ~Has(pendingNotes', call'.index)
               /\ ~Has(activeNotes', call'.index)
               /\ ~Has(lockedDrones', call'.index)
               /\ ~Has(lockTimeouts', call'.index)
          ELSE /\ UNCHANGED <<engineMaps, timers, conts>>
               /\ emitted' = << >>]_vars

C7_Witness ==
    /\ call.op = "unlockDrone"
    /\ Releases(emitted) # {}
    /\ IsIdle(call.index)

\* C8: on a Locked index playNote, stopNote without force and lockDrone change
\* nothing: no map, no timer, no pending record, no continuation, no synth event.
C8_LockedIgnoresStartStopLock ==
    [][(/\ call'.op \in {"playNote", "stopNote", "lockDrone"}
        /\ ~call'.force
        /\ Has(lockedDrones, call'.index)) =>
          /\ UNCHANGED <<engineMaps, timers, conts, initPromise>>
          /\ emitted' = << >>]_vars

C8_Witness ==
    /\ call.op = "stopNote"
    /\ ~call.force
    /\ IsLockedNow(call.index)
    /\ Has(activeNotes, call.index)

\* C9: when the readiness wait of playNote(index) fails, no triggerAttack is
\* emitted and the index ends Idle: in none of pendingNotes, activeNotes,
\* lockedDrones.
C9_FailedInitLeavesIdle ==
    (call.op = "resume" /\ initPromise = "rejected") =>
        /\ Attacks(emitted) = {}
        /\ ~Has(pendingNotes, call.index)
        /\ ~Has(activeNotes, call.index)
        /\ ~Has(lockedDrones, call.index)

\* C10: an index is never in pendingNotes while it is in activeNotes or
\* lockedDrones, and an index enters lockedDrones only from Active.
C10_OneTagPerIndex ==
    /\ [](\A i \in Keys(pendingNotes) : ~Has(activeNotes, i) /\ ~Has(lockedDrones, i))
    /\ [][\A i \in Keys(lockedDrones') \ Keys(lockedDrones) : IsActive(i)]_vars

\* playNote has just made an index Pending while another one, locked from
\* Active, is in lockedDrones and activeNotes.
C10_Witness ==
    /\ call.op = "playNote"
    /\ Has(pendingNotes, call.index)
    /\ \E i \in Keys(lockedDrones) : Has(activeNotes, i) /\ i # call.index

\* C11: lockTimeouts holds an armed auto-lock timer for an index exactly when
\* the index is Active (in activeNotes and not in lockedDrones); an Idle,
\* Pending or Locked index has none, and no index has more than one.
C11_TimerIffActive ==
    \A i \in Keys(pendingNotes) \cup Keys(activeNotes) \cup Keys(lockedDrones)
             \cup Keys(lockTimeouts) \cup {t.index : t \in timers} \cup Indices :
        /\ Has(lockTimeouts, i) <=> IsActive(i)
        /\ IsActive(i) => AutoLockTimers(i) = {t \in timers : t.id = Get(lockTimeouts, i)}
        /\ IsActive(i) => Cardinality(AutoLockTimers(i)) = 1
        /\ ~IsActive(i) => AutoLockTimers(i) = {}

\* One index is Active with its timer armed while another is Locked, its
\* timer gone.
C11_Witness ==
    \E i, j \in Indices :
        /\ IsActive(i)
        /\ Cardinality(AutoLockTimers(i)) = 1
        /\ IsLockedNow(j)
        /\ AutoLockTimers(j) = {}
        /\ call.op = "timer"
        /\ call.index = j

\* C12: the gesture session is exactly one of Idle, SliceDragging, Rotating,
\* Pinching: at most one of dragState.isDragging, isRotating, isPinching is true.
C12_OneSessionKind ==
    Cardinality({f \in {"isDragging", "isRotating", "isPinching"} : dragState[f]}) <= 1

SessionIdle ==
    /\ ~dragState.isDragging
    /\ ~dragState.isRotating
    /\ ~dragState.isPinching

\* What handleEnd leaves behind: the pressed slices that were not Locked are
\* stopped (not sounding, a pending start flagged), the pressed set is empty,
\* the rotation and pinch bookkeeping cleared, the session Idle.
Released ==
    /\ \A n \in 1..Len(dragState.pressedSlices) :
          LET i == dragState.pressedSlices[n].idx
          IN  ~Has(lockedDrones, i) =>
                /\ ~Has(activeNotes', i)
                /\ Has(pendingNotes', i) => Get(pendingNotes', i).shouldCancel
    /\ dragState'.pressedSlices = << >>
    /\ dragState'.lastRotationSlice = -1
    /\ dragState'.lastTouchedSlice = NullEl
    /\ dragState'.lastPinchDistance = 0
    /\ ~dragState'.wasInGripperZone
    /\ ~dragState'.startedFromSlice
    /\ SessionIdle'

\* A release that follows a release changes nothing and stops nothing.
SecondReleaseIsNoOp ==
    (call.op = "handleEnd" /\ call'.op = "handleEnd") =>
        /\ UNCHANGED <<audioVars, dragState, sliceCount, rotation, renderGen,
                       lockedSlices, gripperActive>>
        /\ emitted' = << >>

PointerDowns ==
    {MouseEvent(App(TRUE), p) : p \in Points}
      \cup UNION {{TouchEvent(App(TRUE), ts, TargetAt(App(TRUE), ts[Len(ts)]), dist) :
                     dist \in DistChoices(ts)} :
                  ts \in IF touches < MaxTouches THEN TouchLists(touches + 1) ELSE {}}

\* C14: a pointer-down on a Locked slice unlocks that index (one
\* triggerRelease of its note, the renderer's lock mark removed) and does
\* nothing else: no playNote (no pending record, no continuation), the
\* session flags, pressed set and rotation/pinch bookkeeping unchanged, the
\* index in none of the engine's maps afterwards.
C14_PointerDownOnLockedOnlyUnlocks ==
    \A e \in PointerDowns :
        (e.target.kind = "slice" /\ Has(lockedDrones, e.target.idx)) =>
            LET i == e.target.idx
                B == handleStart(App(TRUE), e)
            IN  /\ B.au.out = <<Ev("triggerRelease", i, Get(lockedDrones, i))>>
                /\ i \notin B.lockedSlices
                /\ B.ds = dragState
                /\ B.au.plays = plays
                /\ B.au.conts = conts
                /\ B.au.pendingNotes = pendingNotes
                /\ B.au.timers = timers
                /\ ~Has(B.au.pendingNotes, i)
                /\ ~Has(B.au.activeNotes, i)
                /\ ~Has(B.au.lockedDrones, i)
                /\ ~Has(B.au.lockTimeouts, i)
                /\ B.rotation = rotation
                /\ B.sliceCount = sliceCount
                /\ B.gen = renderGen
                /\ B.gripper = gripperActive

\* A pointer-down has just unlocked a slice.
C14_Witness ==
    /\ call.op = "handleStart"
    /\ Len(emitted) = 1
    /\ emitted[1].ev = "triggerRelease"
    /\ ~Has(lockedDrones, emitted[1].index)
    /\ ~Has(activeNotes, emitted[1].index)

\* Math.round(d / 20): the integer r with r <= d/20 + 1/2 < r + 1.
IsRounded(r, d) == 20 * r <= d + 10 /\ d + 10 < 20 * r + 20

Clamp(x, lo, hi) == IF x < lo THEN lo ELSE IF x > hi THEN hi ELSE x

\* C15: sliceCount stays an integer in [6,72] under pinch moves and the +/-
\* buttons; a pinch move whose separation differs by d from the baseline sets
\* it to clamp(current - round(d / 20), 6, 72), and a +/- button to
\* clamp(current + delta, 6, 72); from baseline 200 to 160 the count rises by 2.
C15_SliceCountClamped ==
    /\ [](sliceCount \in 6..72)
    /\ [][call'.op = "handlePinch" =>
            LET d == call'.index - dragState.lastPinchDistance
            IN  /\ \E r \in -100..100 :
                      /\ IsRounded(r, d)
                      /\ sliceCount' = Clamp(sliceCount - r, 6, 72)
                /\ (dragState.lastPinchDistance = 200 /\ call'.index = 160
                       /\ sliceCount <= 70) => sliceCount' = sliceCount + 2]_vars
    /\ [][call'.op = "changeSliceCount" =>
            sliceCount' = Clamp(sliceCount + call'.index, 6, 72)]_vars

\* A pinch from baseline 200 to 160 has raised the count by 2 and rebased.
C15_Witness ==
    /\ call.op = "handlePinch"
    /\ call.index = 160
    /\ dragState.lastPinchDistance = 160
    /\ renderGen = 2
    /\ sliceCount = 34

C17_NoteNameIsLetterAndOctave ==
    call.op = "getNote" =>
        LET index == call.index
            note == emitted[1].note
        IN  /\ \E k \in 0..6, o \in 0..10 :
                 /\ index = 7 * o + k
                 /\ note = C_MAJOR_SCALE[k + 1] \o ToString(3 + o)
            /\ \A k \in 0..6, o \in 0..10 :
                 note = C_MAJOR_SCALE[k + 1] \o ToString(3 + o) => index = 7 * o + k
            /\ \A other \in NoteIndices : other # index => getNote(other) # note

\* index 71, the last slice of the largest disc: D in octave 13
C17_Witness ==
    /\ call.op = "getNote"
    /\ call.index = 71
    /\ emitted = << Ev("note", 71, "D13") >>

\* The session is a slice drag and nothing else.
SliceDragging ==
    dragState.isDragging /\ ~dragState.isRotating /\ ~dragState.isPinching

\* The slices the gesture holds down that are not locked.
HeldByDrag ==
    {dragState.pressedSlices[n].idx : n \in 1..Len(dragState.pressedSlices)} \ Keys(lockedDrones)

\* C18: while a single pointer drags over the slices, a move that resolves to
\* another slice than the one held (the first move after the pointer-down
\* included) stops the former slice unless it is locked and starts the new
\* one: after every such move the drag holds at most one slice that is not
\* locked.  (Keyboard presses share the pressed set and are left out.)
C18_DragHoldsOneSlice ==
    [][ ( /\ call'.op = "handleMove"
          /\ SliceDragging
          /\ SliceDragging'
          /\ touches <= 1
          /\ keyPresses = 0 )
        => Cardinality(HeldByDrag') <= 1 ]_vars

\* C19: when a move of a slice drag enters the rotation ring, the session
\* becomes a rotation, and every slice the drag had pressed (the slice of the
\* pointer-down included) has been stopped and taken out of the pressed set
\* before the rotation acts.  Left out: locked slices, keyboard presses, and
\* the slice under the pointer, which the rotation presses again.
C19_EnteringRingReleasesPressed ==
    [][ ( /\ call'.op = "handleMove"
          /\ SliceDragging
          /\ ~dragState.wasInGripperZone
          /\ dragState'.wasInGripperZone
          /\ touches <= 1
          /\ keyPresses = 0 )
        => /\ dragState'.isRotating
           /\ \A i \in HeldByDrag \ {dragState'.lastRotationSlice} :
                 /\ \A n \in 1..Len(dragState'.pressedSlices) :
                       dragState'.pressedSlices[n].idx # i
                 /\ ~Has(activeNotes', i)
                 /\ Has(pendingNotes', i) => Get(pendingNotes', i).shouldCancel ]_vars

\* C20: a rotate move adds to the rotation the change of the pointer's angle
\* since the previous move, wrapped into [-180, 180], and reduces the sum
\* modulo 360; from a rotation in [0, 360) and pointer angles in (-180, 180]
\* the rotation stays in [0, 360).
C20_RotationWrapped ==
    /\ [](rotation \in 0..359)
    /\ [][ call'.op = "handleRotation" =>
             LET change == dragState'.lastAngle - dragState.lastAngle
             IN  /\ dragState'.lastAngle = call'.index
                 /\ \E angleDiff \in -180..180 :
                       /\ (angleDiff - change) % 360 = 0
                       /\ rotation' = (rotation + angleDiff) % 360 ]_vars

\* from 179 to -179 degrees the pointer moved by +2, not by -358: a rotation
\* of 359 becomes 1
C20_Witness ==
    /\ call.op = "handleRotation"
    /\ call.index = -179
    /\ dragState.isRotating
    /\ dragState.lastAngle = -179
    /\ rotation = 1

\* C21: a pinch move takes the current separation as the new baseline exactly
\* when the slice count changed (and then the disc is drawn again); when the
\* rounded delta is zero, or the clamped count is the current count, the
\* count and the baseline stay as they are and nothing is drawn.
C21_RebaseIffCountChanged ==
    [][ call'.op = "handlePinch" =>
          LET d == call'.index - dragState.lastPinchDistance
              r == CHOOSE x \in -100..100 : IsRounded(x, d)
              unchanged == r = 0 \/ Clamp(sliceCount - r, 6, 72) = sliceCount
          IN  /\ unchanged =>
                    /\ sliceCount' = sliceCount
                    /\ dragState'.lastPinchDistance = dragState.lastPinchDistance
                    /\ renderGen' = renderGen
              /\ ~unchanged =>
                    /\ sliceCount' # sliceCount
                    /\ dragState'.lastPinchDistance = call'.index
                    /\ renderGen' = renderGen + 1 ]_vars

\* 72 slices, baseline 200: a pinch in to 100 would add 5 slices, the count is
\* at its maximum, and the baseline is still 200.
C21_Witness ==
    /\ call.op = "handlePinch"
    /\ call.index = 100
    /\ dragState.lastPinchDistance = 200
    /\ sliceCount = 72
    /\ renderGen = 1

\* C22: Enter or Space on a focused slice that is not locked starts the note
\* at once and schedules its stop, and neither the key press nor the
\* scheduled stop touches the gesture session: the session flags, the pressed
\* set, the last visited slice and the pinch and rotation bookkeeping are the
\* same before and after.
C22_KeyboardBypassesSession ==
    [][ /\ call'.op = "handleKeyboard" =>
            /\ dragState' = dragState
            /\ ~Has(lockedDrones, call'.index) =>
                  /\ Has(pendingNotes', call'.index) \/ Has(activeNotes', call'.index)
                  /\ \E t \in timers' \ timers : t.kind = "key" /\ t.index = call'.index
        /\ call'.op = "keyTimer" => dragState' = dragState ]_vars

\* C23: the stop a key press scheduled stops only the note that key press
\* started: when a later start was issued on the index (another key press, a
\* pointer that went down on the slice), the timer's stop releases nothing
\* and cancels nothing.
C23_KeyTimerStopsOwnNoteOnly ==
    [][ (call'.op = "keyTimer" /\ call'.ghost) =>
          /\ Releases(emitted') = {}
          /\ activeNotes' = activeNotes
          /\ pendingNotes' = pendingNotes ]_vars

\* C24: in the engine of part_001, a stopNote(index) issued after
\* playNote(index) was invoked and before its wait for init() resolved keeps
\* that playNote from attacking: after the continuation ran, nothing was
\* attacked and the index is not Active.
C24_LegacyStopPreventsAttack ==
    (call.op = "resume" /\ call.ghost /\ ~Has(lockedDrones, call.index)) =>
        /\ Attacks(emitted) = {}
        /\ ~Has(activeNotes, call.index)

\* C25: last call wins.  After any sequence of playNote and non-forced
\* stopNote calls on idle indices, all issued before the audio was ready,
\* when the last continuation has run an index whose last call was playNote
\* is Active and was attacked exactly once, and an index whose last call was
\* stopNote is Idle; a continuation of an index whose last call was stopNote
\* attacks nothing.
C25_LastCallWins ==
    /\ (call.op = "resume" /\ EpochOf(epoch, call.index).calls = 0) => Attacks(emitted) = {}
    /\ (call.op = "resume" /\ conts = << >>) =>
          \A i \in DOMAIN epoch :
              IF epoch[i].calls > 0
              THEN IsActive(i) /\ epoch[i].attacks = 1
              ELSE IsIdle(i)

\* three starts: one index was started, stopped and started again (or started
\* twice) and sounds, the other was started and stopped and is idle
C25_Witness ==
    /\ call.op = "resume"
    /\ conts = << >>
    /\ plays = MaxPlays
    /\ \E i, j \in DOMAIN epoch :
          /\ epoch[i].calls > 0 /\ IsActive(i) /\ epoch[i].attacks = 1
          /\ epoch[j].calls = 0 /\ IsIdle(j)

\* The attacks and releases a step sent to the synth for the note of index i.
SynthEventsOf(out, i) ==
    SelectSeq(out, LAMBDA e : e.index = i /\ e.ev \in {"triggerAttack", "triggerRelease"})

\* The events alternate, from a note that is sounding or not.  A note sounds
\* from its attack until its release; the engine holds a sounding note in
\* activeNotes.
RECURSIVE Alternates(_, _)
Alternates(evs, sounding) ==
    IF evs = << >> THEN TRUE
    ELSE IF Head(evs).ev = "triggerAttack"
    THEN ~sounding /\ Alternates(Tail(evs), TRUE)
    ELSE sounding /\ Alternates(Tail(evs), FALSE)

\* C26: for every index the synth events of its note alternate attack,
\* release, attack, ...: never a second attack without a release in between,
\* never a release that does not follow an attack not yet released.
C26_AttackReleaseAlternate ==
    [][ \A i \in Indices :
          Alternates(SynthEventsOf(emitted', i), Has(activeNotes, i)) ]_vars

\* C27: the slices the renderer treats as locked are the indices that are
\* Locked in the engine, in every reachable state.
C27_RendererLocksMatchEngine ==
    lockedSlices = {i \in Keys(lockedDrones) \cup lockedSlices : IsLockedNow(i)}

\* C28: every index that is Pending, Active or Locked in the engine is the
\* index of a slice of the disc, 0 <= index < sliceCount, in every reachable
\* state.
C28_NotesWithinSliceCount ==
    \A i \in Keys(pendingNotes) \cup Keys(activeNotes) \cup Keys(lockedDrones) :
        0 <= i /\ i < sliceCount

\* C29: stopNote(index, force = true) on a Locked index releases its sound
\* and leaves the index Idle: it is in neither lockedDrones nor activeNotes,
\* so isLocked(index) is false afterwards.
C29_ForcedStopUnlocks ==
    [][ (call'.op = "stopNote" /\ call'.force /\ IsLockedNow(call'.index)) =>
          /\ \E n \in Releases(emitted') : emitted'[n].index = call'.index
          /\ ~Has(activeNotes', call'.index)
          /\ ~Has(lockedDrones', call'.index)
          /\ ~Has(lockTimeouts', call'.index)
          /\ ~Has(pendingNotes', call'.index) ]_vars

\* The gripper notifications a step sent to the renderer, in order.
GripperEvents(out) ==
    SelectSeq(out, LAMBDA e : e.ev \in {"activateGripper", "deactivateGripper"})

RECURSIVE GripperAlternates(_, _)
GripperAlternates(evs, active) ==
    IF evs = << >> THEN TRUE
    ELSE IF Head(evs).ev = "activateGripper"
    THEN ~active /\ GripperAlternates(Tail(evs), TRUE)
    ELSE active /\ GripperAlternates(Tail(evs), FALSE)

\* C30: the gripper notifications alternate, activateGripper first: never two
\* activateGripper without a deactivateGripper between them; the gripper is
\* active exactly while the session is rotating, and inactive after every
\* release.
C30_GripperAlternates ==
    /\ [](gripperActive <=> dragState.isRotating)
    /\ [][ /\ GripperAlternates(GripperEvents(emitted'), gripperActive)
           /\ call'.op = "handleEnd" => ~gripperActive' ]_vars

====
